---- MODULE Spec2Model ----
(***************************************************************************)
(* Story Magic: the App component of cvc-story-magic and of                *)
(* nano_app/story-magic (React state, handlers, the page/phase effect) and *)
(* the Gemini service wrapper, as a state machine.                         *)
(*                                                                         *)
(* One action is one task of the browser's event loop: the synchronous run *)
(* of a handler (or of the continuation of an awaited promise), the batched*)
(* state update, the re-render and the useEffect that the render triggers. *)
(* A handler reads the state of the render that created it (its closure);  *)
(* what an awaited continuation reads is therefore stored in the request.  *)
(***************************************************************************)
EXTENDS Integers, Sequences, FiniteSets, Bags, TLC

\* ------------------------------------------------------------------ bounds
MaxPages == 2         \* largest number of pages the service returns
MaxInFlight == 4      \* image requests of the current story outstanding at once
MaxStale == 1         \* requests outstanding when the user restarts

VARIABLES
    variant,            \* "cvc" (cvc-story-magic) or "nano" (nano_app/story-magic)
    appState,           \* AppState
    topic,              \* text of the topic input
    story,              \* Story | null
    currentPageIndex,
    isLoadingImage,
    cachedImages,       \* Record<number, string>; NoImage where there is no (truthy) entry
    editPrompt,
    isEditingImage,
    storyReq,           \* the pending generateStoryContent call and the closure of its handler
    imageReqs,          \* pending generateStoryImage calls, a bag
    editReqs,           \* pending editStoryImage calls, a bag
    issued,             \* history: image requests issued per index since the last restart (2 = two or more)
    lastOp,             \* history: the operation that ran last
    edited,             \* history: per index, the image the last successful edit of the current story stored
    call                \* one call of a function of geminiService.ts, taken alone

vars == <<variant, appState, topic, story, currentPageIndex, isLoadingImage,
          cachedImages, editPrompt, isEditingImage, storyReq, imageReqs,
          editReqs, issued, lastOp, edited, call>>

\* the React state alone
session == <<appState, topic, story, currentPageIndex, isLoadingImage,
             cachedImages, editPrompt, isEditingImage>>

\* ------------------------------------------------------------------ values
Variants == {"cvc", "nano"}

AppState == {"SETUP", "LOADING_STORY", "READING", "FINISHED"}

PageIdx == 0 .. (MaxPages - 1)

\* A string is a sequence of tokens; " " is whitespace, "" has no characters.
Blank == " "

EmptyText == <<>>

\* what the user types: nothing, whitespace only, a padded word
Texts == {EmptyText, <<Blank>>, <<Blank, "w", Blank>>}

RECURSIVE TrimStart(_)
TrimStart(s) ==
    IF s # <<>> /\ Head(s) = Blank THEN TrimStart(Tail(s)) ELSE s

RECURSIVE TrimEnd(_)
TrimEnd(s) ==
    IF s # <<>> /\ s[Len(s)] = Blank THEN TrimEnd(SubSeq(s, 1, Len(s) - 1)) ELSE s

\* String.prototype.trim
Trim(s) == TrimEnd(TrimStart(s))

\* the text handleRestart of the nano variant puts in the edit input
NanoRestartPrompt == <<"A funny cat who is a fix-it all.">>

NullStory == [isNull |-> TRUE, fallback |-> FALSE, title |-> <<>>, numPages |-> 0]

\* a story parsed from the service's JSON
GeneratedStory(n) == [isNull |-> FALSE, fallback |-> FALSE, title |-> <<"T">>, numPages |-> n]

NoImage == <<>>

DataPrefix == "data:"
Base64Sep == ";base64,"
PlaceholderPrefix == "https://picsum.photos/800/800?random="

DataUri(mime, data) == <<DataPrefix, mime, Base64Sep, data>>

PlaceholderUrl(rnd) == <<PlaceholderPrefix, rnd>>

\* the image embedded in createFallbackStory
FallbackImage == DataUri("image/png", "iVBORw0KGgo")

\* a fallback story of two pages, the second without image
createFallbackStory_TwoPages(userInput) ==
    [isNull |-> FALSE, fallback |-> TRUE, title |-> userInput, numPages |-> 2]

createFallbackStory(userInput) ==
    [isNull |-> FALSE, fallback |-> TRUE, title |-> userInput, numPages |-> 1]

\* ------------------------------------------------------- generation service
MimeTypes == {"image/png"}
ImageData == {"A", "B"}
RandomValues == {"0.1"}

TextPart == [inline |-> FALSE, mimeType |-> "", data |-> ""]
InlinePart(m, d) == [inline |-> TRUE, mimeType |-> m, data |-> d]

\* inline parts may carry no data
Parts == {TextPart} \cup {InlinePart(m, d) : m \in MimeTypes, d \in ImageData \cup {""}}

\* response.candidates[0].content.parts of a call that returned: no part, one
\* part, a text part before an image
Responses == {<<>>} \cup {<<p>> : p \in Parts}
             \cup {<<TextPart, InlinePart(m, d)>> : m \in MimeTypes, d \in ImageData}

HasImage(part) == part.inline /\ part.data # ""

RECURSIVE FirstImage(_)
\* the loop over the parts: the first part with inline data, as a data URI
FirstImage(parts) ==
    IF parts = <<>> THEN NoImage
    ELSE IF HasImage(Head(parts)) THEN DataUri(Head(parts).mimeType, Head(parts).data)
    ELSE FirstImage(Tail(parts))

\* outcome of one call of the service: it throws, or returns parts
ServiceOutcomes == {[throws |-> TRUE, parts |-> <<>>]} \cup
                   {[throws |-> FALSE, parts |-> p] : p \in Responses}

\* generateStoryImage without the substitution of its catch block
generateStoryImage_NoFallback(outcome, rnd) ==
    IF outcome.throws THEN NoImage ELSE FirstImage(outcome.parts)

\* generateStoryImage: never rejects
generateStoryImage(outcome, rnd) ==
    IF ~outcome.throws /\ FirstImage(outcome.parts) # NoImage
    THEN FirstImage(outcome.parts)
    ELSE PlaceholderUrl(rnd)

\* number of characters of a token sequence being zero or not
NonEmptyChars(s) == \E i \in DOMAIN s : s[i] # ""

\* imageDataUrl.match(/^data:(.+);base64,(.+)$/)
MatchesDataUrl(s) ==
    /\ Len(s) >= 1
    /\ s[1] = DataPrefix
    /\ \E j \in 2 .. Len(s) :
          /\ s[j] = Base64Sep
          /\ NonEmptyChars(SubSeq(s, 2, j - 1))
          /\ NonEmptyChars(SubSeq(s, j + 1, Len(s)))

\* editStoryImage once its request has been sent: resolves with an image or rejects
EditResolves(outcome) == ~outcome.throws /\ FirstImage(outcome.parts) # NoImage

\* every string generateStoryImage can return
ImageResults == {generateStoryImage(o, rnd) : o \in ServiceOutcomes, rnd \in RandomValues}

\* every string editStoryImage can resolve with
EditResults == {FirstImage(o.parts) : o \in {x \in ServiceOutcomes : EditResolves(x)}}

\* a settled promise
Resolved(v) == [kind |-> "resolved", value |-> v]

Rejected(e) == [kind |-> "rejected", error |-> e]

RequestFailed == "request failed"
NoTextReturned == "No text returned from Gemini"
JsonSyntaxError == "SyntaxError"
InvalidImageFormat == "Invalid image data URL format"
NoImageInEditResponse == "No image data found in edit response"

\* response.text of the story request: a JSON document of a story of n pages
StoryJson(n) == <<"{", "title", "T", "pages", n, "}">>

\* response.text: absent, not JSON, or a story of 0 .. MaxPages pages
StoryTexts == {<<>>, <<"oops">>} \cup {StoryJson(n) : n \in 0 .. MaxPages}

StoryOutcomes == {[throws |-> TRUE, text |-> <<>>]} \cup
                 {[throws |-> FALSE, text |-> t] : t \in StoryTexts}

WellFormedJson(text) ==
    /\ Len(text) = 6
    /\ text[1] = "{" /\ text[2] = "title" /\ text[4] = "pages" /\ text[6] = "}"

\* JSON.parse(text) as Story, of a text that parses
JsonParse(text) ==
    [isNull |-> FALSE, fallback |-> FALSE, title |-> <<text[3]>>, numPages |-> text[5]]

\* generateStoryContent substituting a story where the code throws
generateStoryContent_Fallback(outcome) ==
    IF outcome.throws \/ outcome.text = <<>> \/ ~WellFormedJson(outcome.text)
    THEN Resolved(createFallbackStory(<<"T">>))
    ELSE Resolved(JsonParse(outcome.text))

generateStoryContent(outcome) ==
    IF outcome.throws THEN Rejected(RequestFailed)
    ELSE IF outcome.text = <<>> THEN Rejected(NoTextReturned)
    ELSE IF ~WellFormedJson(outcome.text) THEN Rejected(JsonSyntaxError)
    ELSE Resolved(JsonParse(outcome.text))

\* editStoryImage testing the shape of its input after the request
editStoryImage_RequestFirst(imageDataUrl, outcome) ==
    IF ~MatchesDataUrl(imageDataUrl)
    THEN [settled |-> Rejected(InvalidImageFormat), requests |-> 1]
    ELSE IF outcome.throws
    THEN [settled |-> Rejected(RequestFailed), requests |-> 1]
    ELSE IF FirstImage(outcome.parts) # NoImage
    THEN [settled |-> Resolved(FirstImage(outcome.parts)), requests |-> 1]
    ELSE [settled |-> Rejected(NoImageInEditResponse), requests |-> 1]

\* editStoryImage degrading to a placeholder as generateStoryImage does
editStoryImage_Placeholder(imageDataUrl, outcome) ==
    IF ~MatchesDataUrl(imageDataUrl)
    THEN [settled |-> Rejected(InvalidImageFormat), requests |-> 0]
    ELSE IF ~outcome.throws /\ FirstImage(outcome.parts) # NoImage
    THEN [settled |-> Resolved(FirstImage(outcome.parts)), requests |-> 1]
    ELSE [settled |-> Resolved(PlaceholderUrl("0.1")), requests |-> 1]

\* editStoryImage: how its promise settles, and the requests it sent before that
editStoryImage(imageDataUrl, outcome) ==
    IF ~MatchesDataUrl(imageDataUrl)
    THEN [settled |-> Rejected(InvalidImageFormat), requests |-> 0]
    ELSE IF outcome.throws
    THEN [settled |-> Rejected(RequestFailed), requests |-> 1]
    ELSE IF FirstImage(outcome.parts) # NoImage
    THEN [settled |-> Resolved(FirstImage(outcome.parts)), requests |-> 1]
    ELSE [settled |-> Rejected(NoImageInEditResponse), requests |-> 1]

\* strings editStoryImage may be called with
EditInputs ==
    {DataUri(m, d) : m \in MimeTypes, d \in ImageData}
    \cup {DataUri("image/png", "iVBORw0KGgo")}
    \cup {PlaceholderUrl(rnd) : rnd \in RandomValues}
    \cup {<<"not-a-data-url">>, <<>>, DataUri("", "A"), DataUri("image/png", "")}

NoCall == [op |-> "none"]

StoryCalls == {[op |-> "generateStoryContent", outcome |-> o, done |-> FALSE] : o \in StoryOutcomes}

ImageCalls == {[op |-> "generateStoryImage", outcome |-> o, done |-> FALSE] : o \in ServiceOutcomes}

EditCalls == {[op |-> "editStoryImage", imageDataUrl |-> i, outcome |-> o, done |-> FALSE] :
                 i \in EditInputs, o \in ServiceOutcomes}

\* ------------------------------------------------------------ request bags
ImageReqKinds == [index : PageIdx, cur : PageIdx, stale : BOOLEAN]

ImageReq(index, cur) == [index |-> index, cur |-> cur, stale |-> FALSE]

\* the strings editStoryImage can be sent with: what the cache can hold and the regex accepts
DataImages == {DataUri(m, d) : m \in MimeTypes, d \in ImageData} \cup {FallbackImage}

EditReqKinds == [index : PageIdx, image : DataImages, stale : BOOLEAN]

EditReq(index, image) == [index |-> index, image |-> image, stale |-> FALSE]

RECURSIVE SumOver(_, _)
SumOver(f, S) ==
    IF S = {} THEN 0
    ELSE LET x == CHOOSE y \in S : TRUE IN f[x] + SumOver(f, S \ {x})

\* requests of the current story, and of discarded ones
InFlight(bag) == SumOver(bag, {r \in DOMAIN bag : ~r.stale})

Stale(bag) == SumOver(bag, {r \in DOMAIN bag : r.stale})

Pending(bag) == BagToSet(bag)

AddOne(bag, r) == bag (+) SetToBag({r})

RemoveOne(bag, r) == bag (-) SetToBag({r})

RECURSIVE AddAll(_, _)
AddAll(bag, reqs) ==
    IF reqs = <<>> THEN bag
    ELSE AddAll(AddOne(bag, Head(reqs)), Tail(reqs))

\* a restart leaves the requests pending: they now belong to a discarded story
MarkStale(bag) ==
    [r \in {[x EXCEPT !.stale = TRUE] : x \in DOMAIN bag} |->
        CopiesIn(r, bag) + CopiesIn([r EXCEPT !.stale = FALSE], bag)]

Min(a, b) == IF a < b THEN a ELSE b

RECURSIVE CountIssued(_, _)
CountIssued(cnt, reqs) ==
    IF reqs = <<>> THEN cnt
    ELSE CountIssued([cnt EXCEPT ![Head(reqs).index] = Min(@ + 1, 2)], Tail(reqs))

NoIssued == [i \in PageIdx |-> 0]

EmptyCache == [i \in PageIdx |-> NoImage]

\* no page of the current story has been edited
NoEdits == [i \in PageIdx |-> NoImage]

NoStoryReq == [active |-> FALSE, topic |-> <<>>, cachedImages |-> EmptyCache, currentPageIndex |-> 0]

\* --------------------------------------------------------------- App.tsx
\* cachedImages[index]: a key that is not there reads as undefined
Lookup(cache, index) == IF index \in DOMAIN cache THEN cache[index] ELSE NoImage

\* fetchImageForPage sending nothing while the loading flag is up
fetchImageForPage_SkipsWhenLoading(cache, cur, index) ==
    IF Lookup(cache, index) # NoImage \/ isLoadingImage THEN <<>> ELSE <<ImageReq(index, cur)>>

\* fetchImageForPage up to its await, in a render whose closure holds cache and
\* cur: the requests it sends
fetchImageForPage(cache, cur, index) ==
    IF Lookup(cache, index) # NoImage THEN <<>> ELSE <<ImageReq(index, cur)>>

\* setIsLoadingImage(true) was called by one of these fetches
SetsLoading(reqs) == \E i \in DOMAIN reqs : reqs[i].index = reqs[i].cur

\* the useEffect on [currentPageIndex, appState, story] runs its body
EffectActive(state, s) == state = "READING" /\ ~s.isNull

\* the useEffect body prefetching the next page only when it fetches the current one
EffectFetches_LookaheadOnMiss(cache, cur, s) ==
    IF cur \notin 0 .. (s.numPages - 1) THEN <<>>
    ELSE IF Lookup(cache, cur) # NoImage THEN <<>>
    ELSE fetchImageForPage(cache, cur, cur)
         \o (IF cur + 1 < s.numPages /\ Lookup(cache, cur + 1) = NoImage
             THEN fetchImageForPage(cache, cur, cur + 1) ELSE <<>>)

\* the fetches of the useEffect body, in a render with cache, cur and story s
\* (story.pages[cur] of a page that does not exist is undefined, and reading its
\* imageDescription throws before anything is sent)
EffectFetches(cache, cur, s) ==
    IF cur \notin 0 .. (s.numPages - 1) THEN <<>>
    ELSE (IF Lookup(cache, cur) = NoImage THEN fetchImageForPage(cache, cur, cur) ELSE <<>>)
         \o (IF cur + 1 < s.numPages /\ Lookup(cache, cur + 1) = NoImage
             THEN fetchImageForPage(cache, cur, cur + 1) ELSE <<>>)

Init ==
    /\ variant \in Variants
    /\ appState = "SETUP"
    /\ topic = EmptyText
    /\ story = NullStory
    /\ currentPageIndex = 0
    /\ isLoadingImage = FALSE
    /\ cachedImages = EmptyCache
    /\ editPrompt = EmptyText
    /\ isEditingImage = FALSE
    /\ storyReq = NoStoryReq
    /\ imageReqs = EmptyBag
    /\ editReqs = EmptyBag
    /\ issued = NoIssued
    /\ lastOp = "init"
    /\ edited = NoEdits
    /\ call = NoCall

\* ------------------------------------------------------------- setup view
\* onChange of the topic input
TypeTopic(t) ==
    /\ appState = "SETUP"
    /\ t # topic
    /\ topic' = t
    /\ lastOp' = "typeTopic"
    /\ UNCHANGED <<variant, call, edited, appState, story, currentPageIndex, isLoadingImage,
                   cachedImages, editPrompt, isEditingImage, storyReq, imageReqs,
                   editReqs, issued>>

\* disabled attribute of the submit button
SubmitDisabled == Trim(topic) = EmptyText

\* handleGenerateStory testing topic instead of topic.trim()
handleGenerateStory_NoTrim ==
    IF topic = EmptyText
    THEN UNCHANGED <<session, storyReq>>
    ELSE /\ appState' = "LOADING_STORY"
         /\ storyReq' = [active |-> TRUE, topic |-> topic,
                         cachedImages |-> cachedImages,
                         currentPageIndex |-> currentPageIndex]
         /\ UNCHANGED <<topic, story, currentPageIndex, isLoadingImage,
                        cachedImages, editPrompt, isEditingImage>>

\* handleGenerateStory showing the book before the story has arrived
handleGenerateStory_SkipsLoading ==
    IF Trim(topic) = EmptyText
    THEN UNCHANGED <<session, storyReq>>
    ELSE /\ appState' = "READING"
         /\ storyReq' = [active |-> TRUE, topic |-> topic,
                         cachedImages |-> cachedImages,
                         currentPageIndex |-> currentPageIndex]
         /\ UNCHANGED <<topic, story, currentPageIndex, isLoadingImage,
                        cachedImages, editPrompt, isEditingImage>>

\* handleGenerateStory up to its await
handleGenerateStory ==
    IF Trim(topic) = EmptyText
    THEN UNCHANGED <<session, storyReq>>
    ELSE /\ appState' = "LOADING_STORY"
         /\ storyReq' = [active |-> TRUE, topic |-> topic,
                         cachedImages |-> cachedImages,
                         currentPageIndex |-> currentPageIndex]
         /\ UNCHANGED <<topic, story, currentPageIndex, isLoadingImage,
                        cachedImages, editPrompt, isEditingImage>>

\* the form is submitted through its enabled button
Submit ==
    /\ appState = "SETUP"
    /\ ~SubmitDisabled
    /\ handleGenerateStory
    /\ lastOp' = "submit"
    /\ UNCHANGED <<variant, call, edited, imageReqs, editReqs, issued>>

\* generateStoryContent resolved with a story of n >= 1 pages: the rest of the
\* try block, run in the closure of the submitting render, then the render and
\* the effect of the new render
StorySuccess(n) ==
    /\ storyReq.active
    /\ n >= 1
    /\ LET s == GeneratedStory(n)
           handlerFetches ==
               fetchImageForPage(storyReq.cachedImages, storyReq.currentPageIndex, 0)
               \o (IF n > 1
                   THEN fetchImageForPage(storyReq.cachedImages, storyReq.currentPageIndex, 1)
                   ELSE <<>>)
           effectFetches == EffectFetches(cachedImages, currentPageIndex, s)
           all == handlerFetches \o effectFetches
       IN  /\ InFlight(imageReqs) + Len(all) <= MaxInFlight
           /\ story' = s
           /\ appState' = "READING"
           /\ isLoadingImage' = (SetsLoading(all) \/ isLoadingImage)
           /\ editPrompt' = EmptyText
           /\ imageReqs' = AddAll(imageReqs, all)
           /\ issued' = CountIssued(issued, all)
    /\ storyReq' = NoStoryReq
    /\ lastOp' = "storySuccess"
    /\ UNCHANGED <<variant, call, edited, topic, currentPageIndex, cachedImages, isEditingImage, editReqs>>

\* the catch block of handleGenerateStory. storySet: the try block had already
\* called setStory (a story without pages makes pages[0].imageDescription throw)
StoryCatch(storySet, op) ==
    /\ storyReq.active
    /\ IF variant = "cvc"
       THEN LET fallbackStory == createFallbackStory(storyReq.topic)
                cache == [EmptyCache EXCEPT ![0] = FallbackImage]
                effectFetches == EffectFetches(cache, currentPageIndex, fallbackStory)
            IN  /\ InFlight(imageReqs) + Len(effectFetches) <= MaxInFlight
                /\ story' = fallbackStory
                /\ appState' = "READING"
                /\ cachedImages' = cache
                /\ editPrompt' = EmptyText
                /\ isLoadingImage' = (SetsLoading(effectFetches) \/ isLoadingImage)
                /\ imageReqs' = AddAll(imageReqs, effectFetches)
                /\ issued' = CountIssued(issued, effectFetches)
       ELSE /\ appState' = "SETUP"
            /\ story' = (IF storySet THEN GeneratedStory(0) ELSE story)
            /\ UNCHANGED <<cachedImages, editPrompt, isLoadingImage, imageReqs, issued>>
    /\ storyReq' = NoStoryReq
    /\ lastOp' = op
    /\ UNCHANGED <<variant, call, edited, topic, currentPageIndex, isEditingImage, editReqs>>

\* generateStoryContent rejected: no text, unparsable text, or the request threw
StoryFailure == StoryCatch(FALSE, "storyFailure")

\* generateStoryContent resolved with a story that has no pages
StoryEmpty == StoryCatch(TRUE, "storyEmpty")

\* ----------------------------------------------------------- image fetches
\* fetchImageForPage writing setCachedImages({[index]: imageUrl}), without the
\* spread of the previous cache
ImageResponse_ReplacesCache(r, imageUrl) ==
    /\ BagIn(r, imageReqs)
    /\ cachedImages' = [EmptyCache EXCEPT ![r.index] = imageUrl]
    /\ isLoadingImage' = (IF r.index = r.cur THEN FALSE ELSE isLoadingImage)
    /\ imageReqs' = RemoveOne(imageReqs, r)
    /\ lastOp' = "imageResponse"
    /\ UNCHANGED <<variant, call, edited, appState, topic, story, currentPageIndex, editPrompt,
                   isEditingImage, storyReq, editReqs, issued>>

\* fetchImageForPage without the finally block that clears the loading flag
ImageResponse_KeepsLoading(r, imageUrl) ==
    /\ BagIn(r, imageReqs)
    /\ cachedImages' = [cachedImages EXCEPT ![r.index] = imageUrl]
    /\ imageReqs' = RemoveOne(imageReqs, r)
    /\ lastOp' = "imageResponse"
    /\ UNCHANGED <<variant, call, edited, appState, topic, story, currentPageIndex, editPrompt,
                   isEditingImage, storyReq, editReqs, issued, isLoadingImage>>

\* fetchImageForPage storing the image of the current page only: the response of
\* a prefetch is dropped
ImageResponse_DropsPrefetch(r, imageUrl) ==
    /\ BagIn(r, imageReqs)
    /\ cachedImages' = (IF r.index = r.cur
                        THEN [cachedImages EXCEPT ![r.index] = imageUrl]
                        ELSE cachedImages)
    /\ isLoadingImage' = (IF r.index = r.cur THEN FALSE ELSE isLoadingImage)
    /\ imageReqs' = RemoveOne(imageReqs, r)
    /\ lastOp' = "imageResponse"
    /\ UNCHANGED <<variant, call, edited, appState, topic, story, currentPageIndex, editPrompt,
                   isEditingImage, storyReq, editReqs, issued>>

\* a generateStoryImage call returns: the rest of fetchImageForPage
ImageResponse(r, imageUrl) ==
    /\ BagIn(r, imageReqs)
    /\ cachedImages' = [cachedImages EXCEPT ![r.index] = imageUrl]
    /\ isLoadingImage' = (IF r.index = r.cur THEN FALSE ELSE isLoadingImage)
    /\ imageReqs' = RemoveOne(imageReqs, r)
    /\ lastOp' = "imageResponse"
    /\ UNCHANGED <<variant, call, edited, appState, topic, story, currentPageIndex, editPrompt,
                   isEditingImage, storyReq, editReqs, issued>>

\* ------------------------------------------------------------ reading view
ReadingRendered == appState = "READING" /\ ~story.isNull

\* renderReading: image && !isImageLoading && !isEditingImage
EditBarVisible ==
    LET image == Lookup(cachedImages, currentPageIndex)
        isImageLoading == image = NoImage \/ (isLoadingImage /\ image = NoImage)
    IN  ReadingRendered /\ image # NoImage /\ ~isImageLoading /\ ~isEditingImage

\* onChange of the edit input
TypeEdit(t) ==
    /\ EditBarVisible
    /\ t # editPrompt
    /\ editPrompt' = t
    /\ lastOp' = "typeEdit"
    /\ UNCHANGED <<variant, call, edited, appState, topic, story, currentPageIndex, isLoadingImage,
                   cachedImages, isEditingImage, storyReq, imageReqs, editReqs, issued>>

\* disabled attribute of the edit button
EditDisabled == Trim(editPrompt) = EmptyText

\* handleEditImage testing editPrompt instead of editPrompt.trim()
handleEditImage_NoTrim ==
    IF editPrompt = EmptyText \/ Lookup(cachedImages, currentPageIndex) = NoImage
    THEN /\ lastOp' = "editIgnored"
         /\ UNCHANGED <<session, editReqs>>
    ELSE LET currentImage == cachedImages[currentPageIndex]
         IN  IF ~MatchesDataUrl(currentImage)
             THEN /\ isEditingImage' = FALSE
                  /\ lastOp' = "editInvalid"
                  /\ UNCHANGED <<appState, topic, story, currentPageIndex, isLoadingImage,
                                 cachedImages, editPrompt, editReqs>>
             ELSE /\ isEditingImage' = TRUE
                  /\ editReqs' = AddOne(editReqs, EditReq(currentPageIndex, currentImage))
                  /\ lastOp' = "editSubmit"
                  /\ UNCHANGED <<appState, topic, story, currentPageIndex, isLoadingImage,
                                 cachedImages, editPrompt>>

\* handleEditImage up to the request of editStoryImage
handleEditImage ==
    IF Trim(editPrompt) = EmptyText \/ Lookup(cachedImages, currentPageIndex) = NoImage
    THEN /\ lastOp' = "editIgnored"
         /\ UNCHANGED <<session, editReqs>>
    ELSE LET currentImage == cachedImages[currentPageIndex]
         IN  IF ~MatchesDataUrl(currentImage)
             THEN \* editStoryImage rejects before any request; catch, then finally
                  /\ isEditingImage' = FALSE
                  /\ lastOp' = "editInvalid"
                  /\ UNCHANGED <<appState, topic, story, currentPageIndex, isLoadingImage,
                                 cachedImages, editPrompt, editReqs>>
             ELSE /\ isEditingImage' = TRUE
                  /\ editReqs' = AddOne(editReqs, EditReq(currentPageIndex, currentImage))
                  /\ lastOp' = "editSubmit"
                  /\ UNCHANGED <<appState, topic, story, currentPageIndex, isLoadingImage,
                                 cachedImages, editPrompt>>

EditSubmit ==
    /\ EditBarVisible
    /\ ~EditDisabled
    /\ handleEditImage
    /\ UNCHANGED <<variant, call, edited, storyReq, imageReqs, issued>>

\* the success continuation writing setCachedImages({[index]: newImage}), without
\* the spread of the previous cache
EditSuccess_ReplacesCache(r, newImage) ==
    /\ BagIn(r, editReqs)
    /\ cachedImages' = [EmptyCache EXCEPT ![r.index] = newImage]
    /\ editPrompt' = EmptyText
    /\ isEditingImage' = FALSE
    /\ editReqs' = RemoveOne(editReqs, r)
    /\ edited' = (IF r.stale THEN edited ELSE [edited EXCEPT ![r.index] = newImage])
    /\ lastOp' = "editSuccess"
    /\ UNCHANGED <<variant, call, appState, topic, story, currentPageIndex, isLoadingImage,
                   storyReq, imageReqs, issued>>

\* editStoryImage resolved: the rest of the try block, then finally
EditSuccess(r, newImage) ==
    /\ BagIn(r, editReqs)
    /\ cachedImages' = [cachedImages EXCEPT ![r.index] = newImage]
    /\ editPrompt' = EmptyText
    /\ isEditingImage' = FALSE
    /\ editReqs' = RemoveOne(editReqs, r)
    /\ edited' = (IF r.stale THEN edited ELSE [edited EXCEPT ![r.index] = newImage])
    /\ lastOp' = "editSuccess"
    /\ UNCHANGED <<variant, call, appState, topic, story, currentPageIndex, isLoadingImage,
                   storyReq, imageReqs, issued>>

\* editStoryImage rejected after its request: catch, then finally
EditFailure(r) ==
    /\ BagIn(r, editReqs)
    /\ \E o \in ServiceOutcomes : ~EditResolves(o)
    /\ isEditingImage' = FALSE
    /\ editReqs' = RemoveOne(editReqs, r)
    /\ lastOp' = "editFailure"
    /\ UNCHANGED <<variant, call, edited, appState, topic, story, currentPageIndex, isLoadingImage,
                   cachedImages, editPrompt, storyReq, imageReqs, issued>>

\* the effect without setEditPrompt('')
PageChanged_KeepsPrompt(cur) ==
    LET effectFetches == EffectFetches(cachedImages, cur, story)
    IN  /\ InFlight(imageReqs) + Len(effectFetches) <= MaxInFlight
        /\ currentPageIndex' = cur
        /\ isLoadingImage' = (SetsLoading(effectFetches) \/ isLoadingImage)
        /\ imageReqs' = AddAll(imageReqs, effectFetches)
        /\ issued' = CountIssued(issued, effectFetches)
        /\ UNCHANGED <<appState, topic, story, cachedImages, isEditingImage, editPrompt>>

\* a change of currentPageIndex to cur re-renders and runs the effect
PageChanged(cur) ==
    LET effectFetches == EffectFetches(cachedImages, cur, story)
    IN  /\ InFlight(imageReqs) + Len(effectFetches) <= MaxInFlight
        /\ currentPageIndex' = cur
        /\ editPrompt' = (IF EffectActive(appState, story) THEN EmptyText ELSE editPrompt)
        /\ isLoadingImage' = (SetsLoading(effectFetches) \/ isLoadingImage)
        /\ imageReqs' = AddAll(imageReqs, effectFetches)
        /\ issued' = CountIssued(issued, effectFetches)
        /\ UNCHANGED <<appState, topic, story, cachedImages, isEditingImage>>

\* goToNextPage comparing with pages.length instead of pages.length - 1
goToNextPage_OffByOne ==
    IF story.isNull
    THEN UNCHANGED <<session, imageReqs, issued>>
    ELSE IF currentPageIndex < story.numPages
         THEN PageChanged(currentPageIndex + 1)
         ELSE /\ appState' = "FINISHED"
              /\ UNCHANGED <<topic, story, currentPageIndex, isLoadingImage, cachedImages,
                             editPrompt, isEditingImage, imageReqs, issued>>

\* goToNextPage incrementing the index on the last page too
goToNextPage_IncrementsAtEnd ==
    IF story.isNull
    THEN UNCHANGED <<session, imageReqs, issued>>
    ELSE IF currentPageIndex < story.numPages - 1
         THEN PageChanged(currentPageIndex + 1)
         ELSE /\ appState' = "FINISHED"
              /\ currentPageIndex' = currentPageIndex + 1
              /\ UNCHANGED <<topic, story, isLoadingImage, cachedImages,
                             editPrompt, isEditingImage, imageReqs, issued>>

\* goToNextPage advancing by two pages
goToNextPage_SkipsPage ==
    IF story.isNull
    THEN UNCHANGED <<session, imageReqs, issued>>
    ELSE IF currentPageIndex < story.numPages - 1
         THEN PageChanged(currentPageIndex + 2)
         ELSE /\ appState' = "FINISHED"
              /\ UNCHANGED <<topic, story, currentPageIndex, isLoadingImage, cachedImages,
                             editPrompt, isEditingImage, imageReqs, issued>>

goToNextPage ==
    IF story.isNull
    THEN UNCHANGED <<session, imageReqs, issued>>
    ELSE IF currentPageIndex < story.numPages - 1
         THEN PageChanged(currentPageIndex + 1)
         ELSE /\ appState' = "FINISHED"
              /\ UNCHANGED <<topic, story, currentPageIndex, isLoadingImage, cachedImages,
                             editPrompt, isEditingImage, imageReqs, issued>>

\* goToPrevPage without its guard
goToPrevPage_NoGuard == PageChanged(currentPageIndex - 1)

goToPrevPage ==
    IF currentPageIndex > 0
    THEN PageChanged(currentPageIndex - 1)
    ELSE UNCHANGED <<session, imageReqs, issued>>

\* disabled attributes of the navigation buttons
NextDisabled == isEditingImage

\* the previous button disabled on the first page only
PrevDisabled_IndexOnly == currentPageIndex = 0

PrevDisabled == currentPageIndex = 0 \/ isEditingImage

ClickNext ==
    /\ ReadingRendered
    /\ ~NextDisabled
    /\ goToNextPage
    /\ lastOp' = "next"
    /\ UNCHANGED <<variant, call, edited, storyReq, editReqs>>

ClickPrev ==
    /\ ReadingRendered
    /\ ~PrevDisabled
    /\ goToPrevPage
    /\ lastOp' = "prev"
    /\ UNCHANGED <<variant, call, edited, storyReq, editReqs>>

\* ----------------------------------------------------------------- restart
\* handleRestart without setCurrentPageIndex(0)
handleRestart_KeepsIndex ==
    /\ appState' = "SETUP"
    /\ story' = NullStory
    /\ cachedImages' = EmptyCache
    /\ topic' = EmptyText
    /\ editPrompt' = (IF variant = "nano" THEN NanoRestartPrompt ELSE EmptyText)
    /\ isEditingImage' = FALSE
    /\ UNCHANGED <<currentPageIndex, isLoadingImage>>

handleRestart ==
    /\ appState' = "SETUP"
    /\ story' = NullStory
    /\ currentPageIndex' = 0
    /\ cachedImages' = EmptyCache
    /\ topic' = EmptyText
    /\ editPrompt' = (IF variant = "nano" THEN NanoRestartPrompt ELSE EmptyText)
    /\ isEditingImage' = FALSE
    /\ UNCHANGED isLoadingImage

\* the restart button of the reading view, or of the balloon game
Restart ==
    /\ ReadingRendered \/ appState = "FINISHED"
    /\ InFlight(imageReqs) + Stale(imageReqs) + InFlight(editReqs) + Stale(editReqs) <= MaxStale
    /\ handleRestart
    /\ imageReqs' = MarkStale(imageReqs)
    /\ editReqs' = MarkStale(editReqs)
    /\ issued' = NoIssued
    /\ edited' = NoEdits
    /\ lastOp' = "restart"
    /\ UNCHANGED <<variant, call, storyReq>>

\* ------------------------------------------------------------ specification
\* The user acts on what is rendered: a disabled button sends no event.
Next ==
    \/ \E t \in Texts : TypeTopic(t)
    \/ Submit
    \/ \E n \in 1 .. MaxPages : StorySuccess(n)
    \/ StoryFailure
    \/ StoryEmpty
    \/ \E r \in Pending(imageReqs), imageUrl \in ImageResults : ImageResponse(r, imageUrl)
    \/ \E t \in Texts : TypeEdit(t)
    \/ EditSubmit
    \/ \E r \in Pending(editReqs), newImage \in EditResults : EditSuccess(r, newImage)
    \/ \E r \in Pending(editReqs) : EditFailure(r)
    \/ ClickNext
    \/ ClickPrev
    \/ Restart

Spec == Init /\ [][Next]_vars

\* The handlers called whenever their view is shown, whatever the disabled
\* attribute of the button says (a handler driven by a script or a test): what
\* then stops a command is the guard of the handler itself.
CallSubmit ==
    /\ appState = "SETUP"
    /\ handleGenerateStory
    /\ lastOp' = "submit"
    /\ UNCHANGED <<variant, call, edited, imageReqs, editReqs, issued>>

\* handleEditImage called while the book is shown and no edit is running, whether
\* or not the page has an image yet
CallEdit ==
    /\ ReadingRendered
    /\ ~isEditingImage
    /\ handleEditImage
    /\ UNCHANGED <<variant, call, edited, storyReq, imageReqs, issued>>

CallNext ==
    /\ ReadingRendered
    /\ goToNextPage
    /\ lastOp' = "next"
    /\ UNCHANGED <<variant, call, edited, storyReq, editReqs>>

CallPrev ==
    /\ ReadingRendered
    /\ goToPrevPage
    /\ lastOp' = "prev"
    /\ UNCHANGED <<variant, call, edited, storyReq, editReqs>>

NextHandlers ==
    \/ \E t \in Texts : TypeTopic(t)
    \/ CallSubmit
    \/ \E n \in 1 .. MaxPages : StorySuccess(n)
    \/ StoryFailure
    \/ StoryEmpty
    \/ \E r \in Pending(imageReqs), imageUrl \in ImageResults : ImageResponse(r, imageUrl)
    \/ \E t \in Texts : TypeEdit(t)
    \/ CallEdit
    \/ \E r \in Pending(editReqs), newImage \in EditResults : EditSuccess(r, newImage)
    \/ \E r \in Pending(editReqs) : EditFailure(r)
    \/ CallNext
    \/ CallPrev
    \/ Restart

SpecHandlers == Init /\ [][NextHandlers]_vars

\* Every request to the image model is answered: the continuation of a pending
\* fetchImageForPage is eventually run.
ImageDelivery ==
    \E r \in Pending(imageReqs), imageUrl \in ImageResults : ImageResponse(r, imageUrl)

SpecLive == Init /\ [][Next]_vars /\ WF_vars(ImageDelivery)

\* The image model fails on every call: the request throws or the response
\* carries no image. generateStoryImage then returns its placeholder and
\* editStoryImage rejects.
FailedOutcomes == {o \in ServiceOutcomes : ~EditResolves(o)}

FailedResults == {generateStoryImage(o, rnd) : o \in FailedOutcomes, rnd \in RandomValues}

ImageFailure ==
    \E r \in Pending(imageReqs), imageUrl \in FailedResults : ImageResponse(r, imageUrl)

NextFailing ==
    \/ \E t \in Texts : TypeTopic(t)
    \/ Submit
    \/ \E n \in 1 .. MaxPages : StorySuccess(n)
    \/ StoryFailure
    \/ StoryEmpty
    \/ ImageFailure
    \/ \E t \in Texts : TypeEdit(t)
    \/ EditSubmit
    \/ \E r \in Pending(editReqs) : EditFailure(r)
    \/ ClickNext
    \/ ClickPrev
    \/ Restart

SpecFailing == Init /\ [][NextFailing]_vars /\ WF_vars(ImageFailure)

\* ------------------------------------------------------------ service calls
\* One function of geminiService.ts called with one input and one behaviour of
\* the model endpoint; the App does nothing meanwhile.
appVars == <<variant, appState, topic, story, currentPageIndex, isLoadingImage,
             cachedImages, editPrompt, isEditingImage, storyReq, imageReqs,
             editReqs, issued, lastOp, edited>>

InitService ==
    /\ variant = "cvc"
    /\ appState = "SETUP"
    /\ topic = EmptyText
    /\ story = NullStory
    /\ currentPageIndex = 0
    /\ isLoadingImage = FALSE
    /\ cachedImages = EmptyCache
    /\ editPrompt = EmptyText
    /\ isEditingImage = FALSE
    /\ storyReq = NoStoryReq
    /\ imageReqs = EmptyBag
    /\ editReqs = EmptyBag
    /\ issued = NoIssued
    /\ lastOp = "init"
    /\ edited = NoEdits
    /\ call \in StoryCalls \cup ImageCalls \cup EditCalls

CallGenerateStoryContent ==
    /\ call.op = "generateStoryContent"
    /\ ~call.done
    /\ call' = [op |-> call.op, outcome |-> call.outcome, done |-> TRUE,
                settled |-> generateStoryContent(call.outcome), requests |-> 1]
    /\ UNCHANGED appVars

CallGenerateStoryImage ==
    /\ call.op = "generateStoryImage"
    /\ ~call.done
    /\ \E rnd \in RandomValues :
          call' = [op |-> call.op, outcome |-> call.outcome, done |-> TRUE,
                   settled |-> Resolved(generateStoryImage(call.outcome, rnd)),
                   requests |-> 1]
    /\ UNCHANGED appVars

CallEditStoryImage ==
    /\ call.op = "editStoryImage"
    /\ ~call.done
    /\ LET e == editStoryImage(call.imageDataUrl, call.outcome)
       IN  call' = [op |-> call.op, imageDataUrl |-> call.imageDataUrl,
                    outcome |-> call.outcome, done |-> TRUE,
                    settled |-> e.settled, requests |-> e.requests]
    /\ UNCHANGED appVars

NextService ==
    \/ CallGenerateStoryContent
    \/ CallGenerateStoryImage
    \/ CallEditStoryImage

SpecService == InitService /\ [][NextService]_vars

\* ------------------------------------------------------------------ claims
PageCount == story.numPages

\* C1: whenever the phase is READING a story is loaded and
\* 0 <= currentPageIndex < number of its pages, whatever commands and responses
\* came before.
C1_IndexValidWhileReading ==
    appState = "READING" =>
        /\ ~story.isNull
        /\ 0 <= currentPageIndex
        /\ currentPageIndex < PageCount

\* the user has just moved forward to the last page of a story of several pages
C1_Witness ==
    /\ appState = "READING"
    /\ lastOp = "next"
    /\ currentPageIndex = PageCount - 1
    /\ currentPageIndex > 0

\* C2: right after a story generation succeeded the phase is READING and
\* currentPageIndex is 0, in the first session and in every later one.
C2_SuccessStartsAtPageZero ==
    lastOp = "storySuccess" => (appState = "READING" /\ currentPageIndex = 0)

\* a generation succeeded in a later session: a request of a discarded story is
\* still outstanding
C2_Witness ==
    /\ lastOp = "storySuccess"
    /\ Stale(imageReqs) > 0

\* C3: when a story generation succeeds, the image cache holds no entry.
C3_CacheFreshAtSuccess ==
    lastOp = "storySuccess" => cachedImages = EmptyCache

\* C4: a next-page command on the last page moves the phase to FINISHED and does
\* not increment currentPageIndex.
C4_NextOnLastPageFinishes ==
    [][(ClickNext /\ currentPageIndex = PageCount - 1) =>
          (appState' = "FINISHED" /\ currentPageIndex' = currentPageIndex)]_vars

\* the book was finished by a next-page command
C4_Witness ==
    /\ lastOp = "next"
    /\ appState = "FINISHED"
    /\ currentPageIndex = PageCount - 1

\* C5: a previous-page command at currentPageIndex = 0 changes nothing of the
\* session and sends no request.
C5_PrevAtZeroIsNoOp ==
    [][(CallPrev /\ currentPageIndex = 0) =>
          UNCHANGED <<session, storyReq, imageReqs, editReqs>>]_vars

\* a previous-page command was given in a story of one page, the index of which
\* is 0 throughout
C5_Witness ==
    /\ lastOp = "prev"
    /\ appState = "READING"
    /\ PageCount = 1
    /\ currentPageIndex = 0

\* C6: right after a restart the phase is SETUP, there is no story, the cache is
\* empty, currentPageIndex is 0 and the edit text is empty.
C6_RestartResets ==
    lastOp = "restart" =>
        /\ appState = "SETUP"
        /\ story = NullStory
        /\ cachedImages = EmptyCache
        /\ currentPageIndex = 0
        /\ editPrompt = EmptyText

\* C7: a submission of a topic that is empty once trimmed changes nothing and
\* sends no request; any other topic moves the phase to GENERATING
\* (LOADING_STORY) with one story request outstanding.
C7_SubmitGuardedByTrimmedTopic ==
    [][CallSubmit =>
          IF Trim(topic) = EmptyText
          THEN UNCHANGED <<session, storyReq, imageReqs, editReqs>>
          ELSE /\ appState' = "LOADING_STORY"
               /\ storyReq'.active
               /\ UNCHANGED <<topic, story, currentPageIndex, cachedImages>>]_vars

\* a topic of whitespace only was submitted, and the phase is still SETUP
C7_Witness ==
    /\ lastOp = "submit"
    /\ appState = "SETUP"
    /\ topic = <<Blank>>

\* C8: since the last restart at most one image request was sent for any page
\* index.
C8_OneRequestPerIndex == \A i \in PageIdx : issued[i] <= 1

\* C9: the completion of an image fetch for an index that has a cache entry
\* leaves that entry as it is.
C9_FetchKeepsExistingEntry ==
    [][\A r \in Pending(imageReqs), imageUrl \in ImageResults :
          (ImageResponse(r, imageUrl) /\ cachedImages[r.index] # NoImage) =>
              cachedImages'[r.index] = cachedImages[r.index]]_vars

\* C10: when an edit fails (its story not having been discarded meanwhile), the
\* cache entry of its page is the image the edit was submitted with.
C10_FailedEditKeepsImage ==
    [][\A r \in Pending(editReqs) :
          (EditFailure(r) /\ ~r.stale) => cachedImages'[r.index] = r.image]_vars

\* C11: a successful edit of page i writes the cache entry of index i only;
\* the entry of every other index, present or absent, is what it was.
C11_EditWritesItsIndexOnly ==
    [][\A r \in Pending(editReqs), newImage \in EditResults :
          EditSuccess(r, newImage) =>
              /\ cachedImages'[r.index] = newImage
              /\ \A j \in PageIdx \ {r.index} : cachedImages'[j] = cachedImages[j]]_vars

\* an edit of the page shown succeeded while the other page had an image
C11_Witness ==
    /\ lastOp = "editSuccess"
    /\ appState = "READING"
    /\ PageCount = 2
    /\ \A j \in PageIdx : cachedImages[j] # NoImage

\* C12: generateStoryImage always resolves: with the data URI of the first part
\* that carries inline data when there is one, with a non-empty placeholder URL
\* when the response has none or the request threw.
C12_ImageNeverFails ==
    (call.op = "generateStoryImage" /\ call.done) =>
        LET parts == call.outcome.parts
            first == {i \in DOMAIN parts :
                         /\ HasImage(parts[i])
                         /\ \A j \in 1 .. (i - 1) : ~HasImage(parts[j])}
        IN  /\ call.settled.kind = "resolved"
            /\ IF ~call.outcome.throws /\ first # {}
               THEN \E i \in first :
                       call.settled.value = <<"data:", parts[i].mimeType, ";base64,", parts[i].data>>
               ELSE /\ Len(call.settled.value) = 2
                    /\ call.settled.value[1] = "https://picsum.photos/800/800?random="
                    /\ call.settled.value[2] \in RandomValues

\* the request threw and the call resolved all the same
C12_Witness ==
    /\ call.op = "generateStoryImage"
    /\ call.done
    /\ call.outcome.throws
    /\ call.settled.kind = "resolved"

\* C13: editStoryImage given a string that is not data:<mime>;base64,<payload>
\* rejects with the invalid-format error and has sent no request.
C13_InvalidFormatBeforeRequest ==
    (call.op = "editStoryImage" /\ call.done /\ ~MatchesDataUrl(call.imageDataUrl)) =>
        /\ call.settled = Rejected(InvalidImageFormat)
        /\ call.requests = 0

\* "not-a-data-url" was given, with a service that would have returned an image
C13_Witness ==
    /\ call.op = "editStoryImage"
    /\ call.done
    /\ call.imageDataUrl = <<"not-a-data-url">>
    /\ EditResolves(call.outcome)

\* C14: editStoryImage given a well-formed image rejects when the request throws
\* or the response has no inline image, and resolves only with the data URI of
\* the first inline image of the response; it never resolves with a placeholder.
C14_EditNeverSubstitutes ==
    (call.op = "editStoryImage" /\ call.done) =>
        /\ (MatchesDataUrl(call.imageDataUrl) /\ ~EditResolves(call.outcome))
              => call.settled.kind = "rejected"
        /\ call.settled.kind = "resolved" =>
              /\ EditResolves(call.outcome)
              /\ call.settled.value = FirstImage(call.outcome.parts)
              /\ call.settled.value[1] # PlaceholderPrefix

\* a well-formed image was sent and the response carried text only
C14_Witness ==
    /\ call.op = "editStoryImage"
    /\ call.done
    /\ MatchesDataUrl(call.imageDataUrl)
    /\ call.outcome = [throws |-> FALSE, parts |-> <<TextPart>>]
    /\ call.settled = Rejected(NoImageInEditResponse)

\* C15: generateStoryContent rejects when the request throws or the response has
\* no text, and what it resolves with is the parsed text of the response, never
\* a story of its own making.
C15_StoryFailurePropagates ==
    (call.op = "generateStoryContent" /\ call.done) =>
        /\ (call.outcome.throws \/ call.outcome.text = <<>>) => call.settled.kind = "rejected"
        /\ call.settled.kind = "resolved" =>
              /\ ~call.outcome.throws
              /\ call.outcome.text = StoryJson(call.settled.value.numPages)
              /\ ~call.settled.value.fallback

\* the service answered without text
C15_Witness ==
    /\ call.op = "generateStoryContent"
    /\ call.done
    /\ ~call.outcome.throws
    /\ call.outcome.text = <<>>
    /\ call.settled = Rejected(NoTextReturned)

\* a request of the current story for index i is pending
FetchPending(i) == \E r \in Pending(imageReqs) : r.index = i /\ ~r.stale

UserMoved == lastOp \in {"next", "prev", "restart"}

\* C16: right after the generation of a story of two or more pages succeeded the
\* phase is READING and a fetch is pending for each of the indices 0 and 1 that
\* has no entry, neither having been awaited; and unless the user navigates or
\* restarts, the cache eventually has an entry for index 0 and one for index 1.
C16_FirstTwoPagesArrive ==
    /\ [](lastOp = "storySuccess" /\ PageCount >= 2 =>
             /\ appState = "READING"
             /\ \A i \in {0, 1} : cachedImages[i] = NoImage => FetchPending(i))
    /\ (lastOp = "storySuccess" /\ PageCount >= 2) ~>
          (UserMoved \/ (cachedImages[0] # NoImage /\ cachedImages[1] # NoImage))

\* the story of two pages has just arrived with an empty cache: both fetches
\* are pending and the book is shown
C16_Witness ==
    /\ lastOp = "storySuccess"
    /\ PageCount = 2
    /\ cachedImages = EmptyCache
    /\ FetchPending(0) /\ FetchPending(1)
    /\ appState = "READING"

\* the page shown is page p of the book
OnPage(p) == appState = "READING" /\ currentPageIndex = p

\* a placeholder: the URL generateStoryImage substitutes, or on the single page
\* of the fallback story the image embedded in it
IsPlaceholder(image) ==
    \/ /\ Len(image) = 2
       /\ image[1] = "https://picsum.photos/800/800?random="
       /\ image[2] # ""
    \/ story.fallback /\ image = FallbackImage

\* C17: with an image model that fails on every call, a page the user stays on
\* eventually has a non-empty placeholder in the cache with the loading flag
\* cleared, responses being delivered fairly.
C17_PlaceholderEndsLoading ==
    \A p \in PageIdx :
        OnPage(p) ~> (~OnPage(p) \/ (IsPlaceholder(cachedImages[p]) /\ ~isLoadingImage))

\* the user moved to the second page, whose fetch has failed: the placeholder
\* is shown and nothing is loading
C17_Witness ==
    /\ OnPage(1)
    /\ lastOp = "imageResponse"
    /\ cachedImages[1] \in FailedResults
    /\ ~isLoadingImage
    /\ imageReqs = EmptyBag

\* C18: the response of an image fetch issued for a story that a restart has
\* discarded writes nothing into the cache.
C18_StaleFetchNeverWrites ==
    [][\A r \in Pending(imageReqs), imageUrl \in ImageResults :
          (ImageResponse(r, imageUrl) /\ r.stale) => cachedImages' = cachedImages]_vars

\* C19: right after a story generation failed the phase is SETUP and no story
\* request is pending.
C19_FailureReturnsToSetup ==
    lastOp = "storyFailure" => (appState = "SETUP" /\ ~storyReq.active)

\* number of requests for index i in a bag
RequestsFor(bag, i) == SumOver(bag, {r \in DOMAIN bag : r.index = i})

\* C20: a navigation that makes page N current sends one fetch for N exactly
\* when N has no cache entry, one fetch for N + 1 exactly when N + 1 is a page
\* of the story without cache entry (N cached or not), and none for any other
\* index.
C20_NavigationFetches ==
    [][((ClickNext \/ ClickPrev) /\ currentPageIndex' # currentPageIndex) =>
          \A i \in PageIdx :
              RequestsFor(imageReqs' (-) imageReqs, i) =
                  IF i = currentPageIndex'
                  THEN (IF cachedImages[i] = NoImage THEN 1 ELSE 0)
                  ELSE IF /\ i = currentPageIndex' + 1
                          /\ i < PageCount
                          /\ cachedImages[i] = NoImage
                       THEN 1
                       ELSE 0]_vars

\* the user went back to page 0, which is cached, while page 1 is not: the
\* third request for page 1 sent from page 0 is the look-ahead of this navigation
C20_Witness ==
    /\ lastOp = "prev"
    /\ OnPage(0)
    /\ cachedImages[0] # NoImage
    /\ cachedImages[1] = NoImage
    /\ CopiesIn(ImageReq(1, 0), imageReqs) = 3

\* C21: the completion of a fetch whose index is not the page current at that
\* moment leaves the loading flag as it is.
C21_LoadingFlagOfCurrentPageOnly ==
    [][\A r \in Pending(imageReqs), imageUrl \in ImageResults :
          (ImageResponse(r, imageUrl) /\ r.index # currentPageIndex)
              => isLoadingImage' = isLoadingImage]_vars

\* C22: while the editing flag is set no navigation changes currentPageIndex or
\* the phase (a restart apart) and no further edit request is sent.
C22_EditingBlocksCommands ==
    [][(isEditingImage /\ lastOp' # "restart") =>
          /\ currentPageIndex' = currentPageIndex
          /\ appState' = appState
          /\ lastOp' \notin {"next", "prev", "editSubmit", "editInvalid", "editIgnored"}
          /\ InFlight(editReqs') + Stale(editReqs') <= InFlight(editReqs) + Stale(editReqs)]_vars

\* an edit of the second page is in flight: were it not for the flag, the
\* previous and next buttons would both act
C22_Witness ==
    /\ isEditingImage
    /\ lastOp = "editSubmit"
    /\ OnPage(1)
    /\ InFlight(editReqs) = 1

\* C23: whenever READING is entered, or the page changes within READING, the
\* edit-instruction text is empty afterwards.
C23_PageChangeClearsEditText ==
    [][(appState' = "READING" /\ (appState # "READING" \/ currentPageIndex' # currentPageIndex))
          => editPrompt' = EmptyText]_vars

\* nano variant, second session: the restart put a text in the edit input and
\* the new story has just been shown with the input empty
C23_Witness ==
    /\ variant = "nano"
    /\ lastOp = "storySuccess"
    /\ Stale(imageReqs) > 0
    /\ editPrompt = EmptyText

\* C24: every entry of the image cache has the shape data:<mime>;base64,<payload>.
C24_CacheHoldsDataUris ==
    \A i \in PageIdx : cachedImages[i] # NoImage => MatchesDataUrl(cachedImages[i])

\* C25: an index that has a cache entry keeps one in every step but a restart.
C25_EntriesRemovedByRestartOnly ==
    [][lastOp' # "restart" =>
          \A i \in PageIdx : cachedImages[i] # NoImage => cachedImages'[i] # NoImage]_vars

\* the edges of the phase machine, each with the operations that take it
PhaseEdges ==
    {<<"SETUP", "LOADING_STORY", "submit">>,
     <<"LOADING_STORY", "READING", "storySuccess">>,
     <<"LOADING_STORY", "READING", "storyFailure">>,
     <<"LOADING_STORY", "READING", "storyEmpty">>,
     <<"LOADING_STORY", "SETUP", "storyFailure">>,
     <<"LOADING_STORY", "SETUP", "storyEmpty">>,
     <<"READING", "FINISHED", "next">>,
     <<"READING", "SETUP", "restart">>,
     <<"FINISHED", "SETUP", "restart">>}

\* C26: the phase changes only from SETUP to GENERATING by a submission, from
\* GENERATING to READING by a success, from GENERATING to SETUP or READING by a
\* failure, from READING to FINISHED by a next-page command on the last page,
\* and to SETUP by a restart.
C26_PhaseEdges ==
    [][appState' # appState =>
          /\ <<appState, appState', lastOp'>> \in PhaseEdges
          /\ (appState' = "FINISHED" => currentPageIndex = PageCount - 1)]_vars

\* a finished book was restarted and another story asked for
C26_Witness ==
    /\ appState = "LOADING_STORY"
    /\ Stale(imageReqs) > 0

\* C27: a next-page command before the last page keeps the phase READING, adds
\* one to currentPageIndex and leaves the story and the cache as they are; a
\* previous-page command given right after it subtracts that one again.
C27_NextThenPrev ==
    [][/\ (ClickNext /\ currentPageIndex < PageCount - 1) =>
             /\ appState' = "READING"
             /\ currentPageIndex' = currentPageIndex + 1
             /\ story' = story
             /\ cachedImages' = cachedImages
       /\ (ClickPrev /\ lastOp = "next") =>
             /\ appState' = "READING"
             /\ currentPageIndex' = currentPageIndex - 1
             /\ story' = story
             /\ cachedImages' = cachedImages]_vars

\* the user is back on the first page of a story of two pages
C27_Witness ==
    /\ lastOp = "prev"
    /\ OnPage(0)
    /\ PageCount = 2

\* C28: the completion of a fetch for index i stores its result at i and leaves
\* the entry of every other index as it is.
C28_CompletionsAreIndependent ==
    [][\A r \in Pending(imageReqs), imageUrl \in ImageResults :
          ImageResponse(r, imageUrl) =>
              /\ cachedImages'[r.index] = imageUrl
              /\ \A j \in PageIdx \ {r.index} : cachedImages'[j] = cachedImages[j]]_vars

\* fetches for both pages were in flight; the one for page 1 completed first,
\* then one for page 0, and both entries are there
C28_Witness ==
    /\ lastOp = "imageResponse"
    /\ OnPage(0)
    /\ cachedImages[0] # NoImage
    /\ cachedImages[1] # NoImage
    /\ cachedImages[0] # cachedImages[1]
    /\ FetchPending(0)
    /\ ~FetchPending(1)

\* C29: in the cvc variant a failed story generation shows a fallback story of
\* one page at index 0 with the cache holding its embedded image at index 0 and
\* nothing else, sends no image request, and the next-page command on it ends
\* the book.
C29_FallbackStory ==
    /\ []((variant = "cvc" /\ lastOp = "storyFailure") =>
             /\ appState = "READING"
             /\ story = createFallbackStory(topic)
             /\ PageCount = 1
             /\ currentPageIndex = 0
             /\ cachedImages = [i \in PageIdx |-> IF i = 0 THEN FallbackImage ELSE NoImage]
             /\ InFlight(imageReqs) = 0
             /\ issued = NoIssued)
    /\ [][(ClickNext /\ story.fallback) => appState' = "FINISHED"]_vars

\* the fallback story was read to its end
C29_Witness ==
    /\ variant = "cvc"
    /\ story.fallback
    /\ appState = "FINISHED"
    /\ lastOp = "next"

\* C30: at most one edit request is outstanding, and the editing flag is set
\* exactly while one is.
C30_OneEditFlagExact ==
    /\ InFlight(editReqs) + Stale(editReqs) <= 1
    /\ isEditingImage <=> (InFlight(editReqs) + Stale(editReqs) = 1)

\* C31: the completion of an image fetch for a page whose cache entry is the
\* result of a successful edit leaves that entry as it is.
C31_FetchKeepsEditedImage ==
    [][\A r \in Pending(imageReqs), imageUrl \in ImageResults :
          (/\ ImageResponse(r, imageUrl)
           /\ edited[r.index] # NoImage
           /\ cachedImages[r.index] = edited[r.index])
              => cachedImages'[r.index] = cachedImages[r.index]]_vars

\* C32: a story is loaded exactly when the session is past generation: the phase
\* is READING or FINISHED if and only if story is non-null with at least one
\* page, and in SETUP and LOADING_STORY story is null.
C32_StoryLoadedIffPastGeneration ==
    /\ appState \in {"READING", "FINISHED"} <=> (~story.isNull /\ story.numPages >= 1)
    /\ appState \in {"SETUP", "LOADING_STORY"} => story.isNull

\* C33: whenever the phase is READING and the current page has no cache entry,
\* an image fetch for the current page index is in flight.
C33_MissingImageIsBeingFetched ==
    \A p \in PageIdx :
        (OnPage(p) /\ cachedImages[p] = NoImage) => FetchPending(p)

\* the user turned to the second page before its image arrived
C33_Witness ==
    /\ lastOp = "next"
    /\ OnPage(1)
    /\ cachedImages[1] = NoImage
    /\ FetchPending(1)

\* C34: an edit submission changes nothing (no edit request, editing flag not
\* set, cache and edit text as they were) when the edit text is empty after
\* trimming or the current page has no cache entry; a successful edit clears the
\* edit text, a failed one keeps it, and both clear the editing flag.
C34_EditSubmissionGuarded ==
    [][LET submitted == lastOp' \in {"editIgnored", "editInvalid", "editSubmit"}
           blocked == \/ Trim(editPrompt) = EmptyText
                      \/ cachedImages[currentPageIndex] = NoImage
       IN  /\ (submitted /\ blocked) =>
                  /\ editReqs' = editReqs
                  /\ isEditingImage' = isEditingImage
                  /\ ~isEditingImage'
                  /\ cachedImages' = cachedImages
                  /\ editPrompt' = editPrompt
           /\ lastOp' = "editSuccess" => (editPrompt' = EmptyText /\ ~isEditingImage')
           /\ lastOp' \in {"editFailure", "editInvalid"} =>
                  (editPrompt' = editPrompt /\ ~isEditingImage')]_vars

\* an edit text of blanks only was submitted on a page that shows its image
C34_Witness ==
    /\ lastOp = "editIgnored"
    /\ ReadingRendered
    /\ editPrompt # EmptyText
    /\ Trim(editPrompt) = EmptyText
    /\ cachedImages[currentPageIndex] # NoImage
    /\ ~isEditingImage
    /\ editReqs = EmptyBag

TypeOK ==
    /\ variant \in Variants
    /\ appState \in AppState
    /\ topic \in Texts
    /\ currentPageIndex \in PageIdx
    /\ isLoadingImage \in BOOLEAN
    /\ isEditingImage \in BOOLEAN
    /\ editPrompt \in Texts \cup {NanoRestartPrompt}
    /\ \A i \in PageIdx : cachedImages[i] \in ImageResults \cup EditResults \cup {NoImage, FallbackImage}
    /\ \A i \in PageIdx : issued[i] \in 0 .. 2
    /\ DOMAIN imageReqs \subseteq ImageReqKinds
    /\ DOMAIN editReqs \subseteq EditReqKinds
    /\ InFlight(imageReqs) <= MaxInFlight
====
